---- MODULE Spec2Model ----
(***************************************************************************)
(* Model of the form-submission API of form_back: src/src/form.js (the     *)
(* later revision of the file, lines 286-577, which is the one that        *)
(* carries call_disposition and the after_* columns), src/src/webhook.js   *)
(* and the forms table of src/src/schema.sql.                              *)
(*                                                                         *)
(* Every request handler is an async function; the code between two        *)
(* awaits runs without interruption, so one action of the model is one     *)
(* such stretch: it consumes the result of the awaited call, runs the      *)
(* handler up to the next await (or to the response) and issues the next   *)
(* call.  Requests of different clients interleave at the awaits.          *)
(***************************************************************************)
EXTENDS Integers, Sequences, FiniteSets, Bags, TLC

VARIABLES
    forms,      \* the forms table: id -> row (a function over Fields)
    autoInc,    \* the table's AUTO_INCREMENT counter: the next id
    createdAt,  \* the created_at column: id -> the second the row was inserted in
    conns,      \* the connection pool: its idle connections
    req,        \* the request each client slot is running, with its locals
    outbox,     \* every message handed to transporter.sendMail, in order
    started,    \* number of requests admitted so far
    origin,     \* history: id -> the request that inserted the row
    workload    \* the input universe of this run (fixed by Init)

vars == <<forms, autoInc, createdAt, conns, req, outbox, started, origin, workload>>

----------------------------------------------------------------------------
(* Bounds *)

MaxRequests == 2     \* requests admitted in one run
MaxInflight == 2     \* client slots, i.e. requests that may overlap

----------------------------------------------------------------------------
(* JavaScript values *)

UNDEFINED == "<undefined>"
NULL == "<null>"

\* What the || operator treats as false, among undefined, null and strings.
Falsy(v) == v \in {UNDEFINED, NULL, ""}

\* a || b
Or(a, b) == IF Falsy(a) THEN b ELSE a

\* a ?? b
Coalesce(a, b) == IF a \in {UNDEFINED, NULL} THEN b ELSE a

\* data.k for a parsed JSON object: undefined when the key is absent.
Prop(data, k) == IF k \in DOMAIN data THEN data[k] ELSE UNDEFINED

NoRow == <<>>
NoData == <<>>

----------------------------------------------------------------------------
(* The forms table *)

Fields ==
    {"company", "name", "contact_number", "email", "disposition", "query",
     "call_disposition", "queue_id", "queue_name", "agent_id", "agent_ext",
     "caller_id__name", "caller_id__number", "after_disposition",
     "after_sub_disposition", "after_follow_up_notes"}

\* Columns declared NOT NULL.
NotNullColumns == {"company", "name", "email"}

\* A statement is rejected when a bound parameter is undefined (the driver
\* refuses it) or a NOT NULL column would receive NULL.
Rejected(cols, params) ==
    \E i \in DOMAIN cols :
        \/ params[i] = UNDEFINED
        \/ cols[i] \in NotNullColumns /\ params[i] = NULL

\* INSERT INTO forms (cols) VALUES (params): unnamed columns default to NULL.
InsertedRow(cols, params) ==
    [f \in Fields |->
        IF \E i \in DOMAIN cols : cols[i] = f
        THEN params[CHOOSE i \in DOMAIN cols : cols[i] = f]
        ELSE NULL]

\* UPDATE forms SET cols = params: unnamed columns keep their value.
UpdatedRow(old, cols, params) ==
    [f \in Fields |->
        IF \E i \in DOMAIN cols : cols[i] = f
        THEN params[CHOOSE i \in DOMAIN cols : cols[i] = f]
        ELSE old[f]]

\* created_at TIMESTAMP DEFAULT CURRENT_TIMESTAMP: the column holds whole
\* seconds, here counted from the second of the first INSERT.  A later
\* INSERT reads the second of the INSERT before it or a later one (one step
\* of the clock stands for any number of seconds).
CURRENT_TIMESTAMP(created) ==
    IF DOMAIN created = {} THEN {0}
    ELSE LET latest == CHOOSE t \in {created[id] : id \in DOMAIN created} :
                            \A id \in DOMAIN created : created[id] <= t
         IN  {latest, latest + 1}

\* The orders of the set S: the sequences that hold each element once.
Orders(S) ==
    {s \in [1 .. Cardinality(S) -> S] : \A i, j \in DOMAIN s : s[i] = s[j] => i = j}

\* SELECT * FROM forms ORDER BY created_at DESC: the ids of the rows in an
\* order the statement allows.  Rows of one second come in the order the
\* server finds them, which the statement does not fix.
OrderByCreatedAtDesc(created) ==
    {s \in Orders(DOMAIN created) :
        \A i, j \in DOMAIN s : i < j => created[s[i]] >= created[s[j]]}

\* An UPDATE without a WHERE clause.
WhereTrue(table, id) == DOMAIN table

\* WHERE id = ?: the rows the statement applies to.
WhereId(table, id) == {j \in DOMAIN table : j = id}

----------------------------------------------------------------------------
(* The connection pool *)

connectionLimit == 10

\* Connections differ only in what LAST_INSERT_ID() answers on them, so the
\* pool is the bag of those values over its idle connections; a request that
\* holds a connection holds its value (NoConn when it holds none).
NoConn == -1

\* pool.execute takes an idle connection when there is one, else opens a new
\* one (which has generated no id: 0) up to connectionLimit, else waits.
\* Which idle connection it takes is the driver's choice.  `held` is the
\* number of connections out of the pool.
Acquirable(cs, held) ==
    IF BagToSet(cs) # {} THEN BagToSet(cs)
    ELSE IF held < connectionLimit THEN {0}
    ELSE {}

Acquire(cs, c) == IF BagIn(c, cs) THEN cs (-) SetToBag({c}) ELSE cs

Release(cs, c) == cs (+) SetToBag({c})

\* The connection goes back to the pool after an INSERT that generated id.
ReleaseAfterInsert(cs, c, id) == cs (+) SetToBag({id})

----------------------------------------------------------------------------
(* handleFormSubmission: the INSERT and the notification *)

InsertColumns ==
    <<"company", "name", "contact_number", "email", "disposition",
      "call_disposition", "query", "queue_id", "queue_name", "agent_id",
      "agent_ext", "caller_id__name", "caller_id__number",
      "after_disposition", "after_sub_disposition", "after_follow_up_notes">>

\* The variables bound to the placeholders, in the order of the array.
InsertArgNames ==
    <<"company", "name", "contact_number", "email", "disposition",
      "call_disposition", "query", "queue_id", "queue_name", "agent_id",
      "agent_ext", "caller_id__name", "caller_id__number",
      "after_disposition", "after_sub_disposition", "after_follow_up_notes">>

\* The earlier revision of the file bound `v || null`.
InsertArgOrNull(v) == Or(v, NULL)

\* Each variable is bound as `v ?? null`.
InsertArg(v) == Coalesce(v, NULL)

InsertParams(data) ==
    [i \in DOMAIN InsertArgNames |-> InsertArg(Prop(data, InsertArgNames[i]))]

\* A test that never skips the notification.
SuppressNever(disposition) == FALSE

\* `if (disposition === 'General Enquiry') return;`
SuppressEmail(disposition) == disposition = "General Enquiry"

DISPOSITION_TO_EMAIL ==
    [label \in {"Customer Support", "Consultant support", "Application Support",
                "B2B Lead", "New Lead", "Renewals", "Concierge Services",
                "General Enquiry"} |->
        CASE label = "Customer Support" -> "ayan@multycomm.com"
          [] label = "Consultant support" -> "ayandgr5@gmail.com"
          [] label = "Application Support" -> "meenakshi@multycomm.com"
          [] label = "B2B Lead" -> "akash@multycomm.com"
          [] label = "New Lead" -> "sanjana@multycomm.com"
          [] label = "Renewals" -> "vidhika@multycomm.com"
          [] label = "Concierge Services" -> "ayan@multycomm.com"
          [] label = "General Enquiry" -> NULL]

\* DISPOSITION_TO_EMAIL is an object literal, so obj[key] also finds what the
\* object inherits from Object.prototype.
ObjectPrototypeKeys ==
    {"constructor", "toString", "toLocaleString", "valueOf", "hasOwnProperty",
     "isPrototypeOf", "propertyIsEnumerable", "__proto__"}

\* The value an inherited property reads as: a function (or, for __proto__,
\* an object), which is truthy and is not an address.
InheritedValue(key) == "<Object.prototype." \o key \o ">"

\* obj[key]
Lookup(obj, key) ==
    IF key \in DOMAIN obj THEN obj[key]
    ELSE IF key \in ObjectPrototypeKeys THEN InheritedValue(key)
    ELSE UNDEFINED

\* `const to = DISPOSITION_TO_EMAIL[disposition] || 'info@shams.ae';`
Recipient(disposition) == Or(Lookup(DISPOSITION_TO_EMAIL, disposition), "info@shams.ae")

CreateSubject == "Inbound Call - For your action!"
UpdateSubject == "Updated Inbound Call - For your action!"

\* The five values the template shows, each `${v || '-'}`.
Html(company, name, email, contact_number, query) ==
    <<Or(company, "-"), Or(name, "-"), Or(email, "-"),
      Or(contact_number, "-"), Or(query, "-")>>

\* `label` is not part of the message: it records the disposition the
\* recipient was resolved from.
CreateMail(data) ==
    [label |-> Prop(data, "disposition"),
     to |-> Recipient(Prop(data, "disposition")),
     subject |-> CreateSubject,
     html |-> Html(Prop(data, "company"), Prop(data, "name"), Prop(data, "email"),
                   Prop(data, "contact_number"), Prop(data, "query"))]

----------------------------------------------------------------------------
(* updateFormSubmission: the merge, the UPDATE and the notification *)

\* A default that also replaces null and the empty string.
MergeFieldFalsy(data, current, f) == Or(Prop(data, f), current[f])

\* `const { f = current.f } = data;`: the default applies when data.f is
\* undefined, and only then.
MergeField(data, current, f) ==
    IF Prop(data, f) = UNDEFINED THEN current[f] ELSE data[f]

Destructured(data, current) == [f \in Fields |-> MergeField(data, current, f)]

UpdateColumns ==
    <<"company", "name", "contact_number", "email", "disposition", "query",
      "queue_id", "queue_name", "agent_id", "agent_ext", "caller_id__name",
      "caller_id__number", "call_disposition", "after_disposition",
      "after_sub_disposition", "after_follow_up_notes">>

\* The array of the INSERT, reused for the UPDATE.
UpdateArgNamesAsInserted == InsertArgNames

\* The variables bound to the placeholders, in the order of the array.
UpdateArgNames ==
    <<"company", "name", "contact_number", "email", "disposition", "query",
      "queue_id", "queue_name", "agent_id", "agent_ext", "caller_id__name",
      "caller_id__number", "call_disposition", "after_disposition",
      "after_sub_disposition", "after_follow_up_notes">>

\* The first six variables are bound as they are, the others as `v ?? null`.
UpdateParams(merged) ==
    [i \in DOMAIN UpdateArgNames |->
        IF i <= 6 THEN merged[UpdateArgNames[i]]
        ELSE Coalesce(merged[UpdateArgNames[i]], NULL)]

\* A test that looks for the key and not at what else was sent.
MentionsCallDisposition(data) == "call_disposition" \in DOMAIN data

\* `meaningfulKeys.length === 1 && meaningfulKeys[0] === 'call_disposition'`
OnlyCallDisposition(data) ==
    LET meaningfulKeys == {k \in DOMAIN data : data[k] # UNDEFINED}
    IN  Cardinality(meaningfulKeys) = 1 /\ meaningfulKeys = {"call_disposition"}

UpdateMail(merged) ==
    [label |-> merged["disposition"],
     to |-> Recipient(merged["disposition"]),
     subject |-> UpdateSubject,
     html |-> Html(merged["company"], merged["name"], merged["email"],
                   merged["contact_number"], merged["query"])]

----------------------------------------------------------------------------
(* processWebhookData *)

WebhookColumns ==
    <<"company", "name", "contact_number", "email", "disposition", "query",
      "queue_id", "queue_name", "agent_id", "agent_ext", "caller_id__name",
      "caller_id__number">>

WebhookParams(data) ==
    <<Or(Prop(data, "cidname"), "Unknown Company"),
      Or(Prop(data, "cidname"), "Unknown Caller"),
      Or(Prop(data, "cidnum"), ""),
      "",
      "General Enquiry",
      "Call received from queue: " \o Or(Prop(data, "qname"), "Unknown"),
      Or(Prop(data, "qid"), ""),
      Or(Prop(data, "qname"), ""),
      Or(Prop(data, "agent"), ""),
      Or(Prop(data, "agentExtn"), ""),
      Or(Prop(data, "cidname"), ""),
      Or(Prop(data, "cidnum"), "")>>

\* A stub that announced itself the way a create does.
WebhookMailsLikeCreate(row) ==
    <<[label |-> row["disposition"],
       to |-> Recipient(row["disposition"]), subject |-> CreateSubject,
       html |-> Html(row["company"], row["name"], row["email"],
                     row["contact_number"], row["query"])]>>

\* What processWebhookData hands to the mail transport: nothing, it never
\* touches the transporter.
WebhookMails(row) == <<>>

----------------------------------------------------------------------------
(* The route handlers' answers *)

Created == 201
Ok == 200
Found == 302
BadRequest == 400
NotFound == 404
InternalServerError == 500

\* A catch block that rethrows.
AfterSendMailRethrow(kind, delivered) ==
    IF ~delivered THEN InternalServerError
    ELSE IF kind = "post" THEN Created ELSE Ok

\* sendMail sits in try/catch inside the function, so the route answers the
\* same whether it resolved or rejected.
AfterSendMail(kind, delivered) == IF kind = "post" THEN Created ELSE Ok

\* A route that goes on to the update without looking at the row.
PutRouteIgnoresLookup(form) == 0

\* app.put: `if (!form) return res.status(404)`; 0 stands for going on.
PutRouteAfterLookup(form) == IF form = NoRow THEN NotFound ELSE 0

\* A route without a catch block: the rejection leaves the handler and no
\* response is written.
OnStoreErrorUncaught(kind) == 0

\* A catch block that answers as if nothing had happened.
OnStoreErrorSwallow(kind) == IF kind = "post" THEN Created ELSE Ok

\* Every route wraps its handler in try/catch and answers 500.
OnStoreError(kind) == InternalServerError

----------------------------------------------------------------------------
(* Clients and their inputs *)

Procs == 1 .. MaxInflight

\* The fields a well-formed create always carries.
Base == [company |-> "Acme", name |-> "Ann", email |-> "ann@acme.test"]

\* Every key of the mapping, a label the mapping has no entry for, and one
\* that names an inherited property.
AllLabels == (DOMAIN DISPOSITION_TO_EMAIL) \cup {"Unknown Label", "constructor"}

\* What overlapping clients send: creates with a mapped label, the suppressed
\* one or one the mapping has no entry for (or none); updates of disposition
\* and call_disposition, alone, together or neither.
CoreCreateValues == [disposition |-> {"Renewals", "General Enquiry", "Unknown Label"}]
CoreUpdateValues ==
    [disposition |-> {"Renewals", "General Enquiry"}, call_disposition |-> {"Answered"}]

\* What the single client sends in field f: the empty string, null, and two
\* strings (for disposition: every label).
FieldValues(f) ==
    IF f = "disposition" THEN {"", NULL} \cup AllLabels ELSE {"", NULL, "v1", "v2"}

\* The JSON objects with keys among DOMAIN values and values[k] under key k.
Payloads(values) ==
    UNION {{d \in [S -> UNION {values[k] : k \in S}] : \A k \in S : d[k] \in values[k]} :
           S \in SUBSET DOMAIN values}

UpdateInputs == Payloads(workload.update)

\* A create sends the base fields and, over them, what its own keys say.
CreateInputs ==
    {d @@ [k \in (DOMAIN Base) \ DOMAIN workload.create |-> Base[k]] :
        d \in Payloads(workload.create)}

\* A webhook call: no parsed body at all, no parameters, or a caller name.
WebhookInputs ==
    {[present |-> FALSE, params |-> NoData],
     [present |-> TRUE, params |-> NoData],
     [present |-> TRUE, params |-> [cidname |-> "Acme"]]}

----------------------------------------------------------------------------
(* State *)

Idle ==
    [kind |-> "none", pc |-> "idle", id |-> 0, data |-> NoData, conn |-> NoConn,
     current |-> NoRow, status |-> 0, body |-> NoRow, location |-> 0, rows |-> <<>>,
     \* history of the request, read by the properties only
     sends |-> 0, newId |-> 0, before |-> NoRow, wrote |-> "no",
     mail |-> "none", src |-> NoRow, storeError |-> FALSE]

QueryPcs == {"insert", "lookup", "fetch", "write", "select", "selectAll", "winsert", "lastid"}
WritePcs == {"insert", "write", "winsert"}

Init ==
    /\ forms = <<>>
    /\ autoInc = 1
    /\ createdAt = <<>>
    /\ conns = EmptyBag
    /\ req = [p \in Procs |-> Idle]
    /\ outbox = <<>>
    /\ started = 0
    /\ origin = <<>>
    /\ workload = [create |-> CoreCreateValues, update |-> CoreUpdateValues, procs |-> Procs]

\* One client at a time, sending any value in one field of the schema.
InitFields ==
    /\ forms = <<>>
    /\ autoInc = 1
    /\ createdAt = <<>>
    /\ conns = EmptyBag
    /\ req = [p \in Procs |-> Idle]
    /\ outbox = <<>>
    /\ started = 0
    /\ origin = <<>>
    /\ workload \in {[create |-> (f :> FieldValues(f)), update |-> (f :> FieldValues(f)),
                     procs |-> {1}] : f \in Fields}

\* The create that the stored record of InitStored came from.
StoredData == Base @@ [disposition |-> "Renewals"]

\* The server after one POST /forms of StoredData has been answered: the row
\* is in the table, its notification went out, and the connection that ran
\* the INSERT is back in the pool.  Clients overlap from here on.
InitStored ==
    /\ forms = (1 :> InsertedRow(InsertColumns, InsertParams(StoredData)))
    /\ autoInc = 2
    /\ createdAt = (1 :> 0)
    /\ conns = ReleaseAfterInsert(EmptyBag, 0, 1)
    /\ req = [p \in Procs |-> Idle]
    /\ outbox = <<CreateMail(StoredData)>>
    /\ started = 0
    /\ origin = (1 :> [by |-> "post", data |-> StoredData, updated |-> FALSE])
    /\ workload = [create |-> CoreCreateValues, update |-> CoreUpdateValues, procs |-> Procs]

\* The same server, with one client that sends its requests one after the
\* other.
InitSerial ==
    /\ forms = (1 :> InsertedRow(InsertColumns, InsertParams(StoredData)))
    /\ autoInc = 2
    /\ createdAt = (1 :> 0)
    /\ conns = ReleaseAfterInsert(EmptyBag, 0, 1)
    /\ req = [p \in Procs |-> Idle]
    /\ outbox = <<CreateMail(StoredData)>>
    /\ started = 0
    /\ origin = (1 :> [by |-> "post", data |-> StoredData, updated |-> FALSE])
    /\ workload = [create |-> CoreCreateValues, update |-> CoreUpdateValues, procs |-> {1}]

\* A new request takes the first slot that is not running one.
CanStart(p) ==
    /\ p \in workload.procs
    /\ req[p].pc \in {"idle", "done"}
    /\ \A q \in workload.procs : q < p => req[q].pc \notin {"idle", "done"}
    /\ started < MaxRequests

\* SELECT * FROM forms WHERE id = ?  ->  rows[0] or null
RowById(id) == IF id \in DOMAIN forms THEN forms[id] ELSE NoRow

\* The connections that requests hold.
Held == Cardinality({p \in Procs : req[p].conn # NoConn})

Respond(r, status) == [r EXCEPT !.pc = "done", !.status = status, !.conn = NoConn]

----------------------------------------------------------------------------
(* POST /forms *)

\* The route calls handleFormSubmission, which issues the INSERT.
PostForms(p) ==
    \E data \in CreateInputs, c \in Acquirable(conns, Held) :
        /\ CanStart(p)
        /\ req' = [req EXCEPT ![p] =
                [Idle EXCEPT !.kind = "post", !.pc = "insert", !.data = data, !.conn = c]]
        /\ conns' = Acquire(conns, c)
        /\ started' = started + 1
        /\ UNCHANGED <<forms, autoInc, createdAt, outbox, origin, workload>>

\* The INSERT settles: rejected by the table (the route answers 500), or the
\* row is stored and the function goes on to the notification.
PostInsertDone(p) ==
    LET r == req[p]
        params == InsertParams(r.data)
        id == autoInc
    IN  /\ r.kind = "post" /\ r.pc = "insert"
        /\ IF Rejected(InsertColumns, params)
           THEN /\ req' = [req EXCEPT ![p] =
                        Respond([r EXCEPT !.wrote = "failed"], OnStoreError(r.kind))]
                /\ conns' = Release(conns, r.conn)
                /\ UNCHANGED <<forms, autoInc, createdAt, outbox, origin>>
           ELSE /\ forms' = (id :> InsertedRow(InsertColumns, params)) @@ forms
                /\ autoInc' = id + 1
                /\ \E t \in CURRENT_TIMESTAMP(createdAt) :
                    createdAt' = (id :> t) @@ createdAt
                /\ conns' = ReleaseAfterInsert(conns, r.conn, id)
                /\ origin' = (id :> [by |-> "post", data |-> r.data, updated |-> FALSE]) @@ origin
                /\ IF SuppressEmail(Prop(r.data, "disposition"))
                   THEN /\ req' = [req EXCEPT ![p] =
                                Respond([r EXCEPT !.wrote = "ok", !.newId = id], Created)]
                        /\ UNCHANGED outbox
                   ELSE /\ outbox' = Append(outbox, CreateMail(r.data))
                        /\ req' = [req EXCEPT ![p] =
                                [r EXCEPT !.pc = "mail", !.conn = NoConn, !.wrote = "ok",
                                          !.newId = id, !.sends = r.sends + 1,
                                          !.mail = "pending"]]
        /\ UNCHANGED <<started, workload>>

----------------------------------------------------------------------------
(* The mail transport answers *)

MailSent(p) ==
    LET r == req[p]
    IN  /\ r.pc = "mail"
        /\ req' = [req EXCEPT ![p] =
                Respond([r EXCEPT !.mail = "sent"], AfterSendMail(r.kind, TRUE))]
        /\ UNCHANGED <<forms, autoInc, createdAt, conns, outbox, started, origin, workload>>

\* sendMail rejects: the catch block logs and the function returns.
MailFails(p) ==
    LET r == req[p]
    IN  /\ r.pc = "mail"
        /\ req' = [req EXCEPT ![p] =
                Respond([r EXCEPT !.mail = "failed"], AfterSendMail(r.kind, FALSE))]
        /\ UNCHANGED <<forms, autoInc, createdAt, conns, outbox, started, origin, workload>>

----------------------------------------------------------------------------
(* PUT /forms/:id *)

\* The route first looks the row up itself.
PutForms(p) ==
    \E id \in 1 .. autoInc, data \in UpdateInputs, c \in Acquirable(conns, Held) :
        /\ CanStart(p)
        /\ req' = [req EXCEPT ![p] =
                [Idle EXCEPT !.kind = "put", !.pc = "lookup", !.id = id, !.data = data,
                             !.conn = c, !.before = RowById(id)]]
        /\ conns' = Acquire(conns, c)
        /\ started' = started + 1
        /\ UNCHANGED <<forms, autoInc, createdAt, outbox, origin, workload>>

\* The route's lookup settles: 404, or updateFormSubmission is called and
\* fetches the row again.
PutLookupDone(p) ==
    LET r == req[p]
        form == RowById(r.id)
        released == Release(conns, r.conn)
    IN  /\ r.kind = "put" /\ r.pc = "lookup"
        /\ IF PutRouteAfterLookup(form) # 0
           THEN /\ req' = [req EXCEPT ![p] = Respond(r, PutRouteAfterLookup(form))]
                /\ conns' = released
           ELSE \E c \in Acquirable(released, Held - 1) :
                    /\ req' = [req EXCEPT ![p] = [r EXCEPT !.pc = "fetch", !.conn = c]]
                    /\ conns' = Acquire(released, c)
        /\ UNCHANGED <<forms, autoInc, createdAt, outbox, started, origin, workload>>

\* `current` arrives: the function throws when there is none, else it merges
\* the payload over it and issues the UPDATE.
UpdateFetchDone(p) ==
    LET r == req[p]
        current == RowById(r.id)
        released == Release(conns, r.conn)
    IN  /\ r.kind = "put" /\ r.pc = "fetch"
        /\ IF current = NoRow
           THEN /\ req' = [req EXCEPT ![p] = Respond(r, OnStoreError(r.kind))]
                /\ conns' = released
           ELSE \E c \in Acquirable(released, Held - 1) :
                    /\ req' = [req EXCEPT ![p] =
                            [r EXCEPT !.pc = "write", !.conn = c, !.current = current]]
                    /\ conns' = Acquire(released, c)
        /\ UNCHANGED <<forms, autoInc, createdAt, outbox, started, origin, workload>>

\* The UPDATE settles: rejected by the table, or the row is rewritten and the
\* function decides about the notification.
UpdateWriteDone(p) ==
    LET r == req[p]
        merged == Destructured(r.data, r.current)
        params == UpdateParams(merged)
    IN  /\ r.kind = "put" /\ r.pc = "write"
        /\ conns' = Release(conns, r.conn)
        /\ IF Rejected(UpdateColumns, params)
           THEN /\ req' = [req EXCEPT ![p] =
                        Respond([r EXCEPT !.wrote = "failed"], OnStoreError(r.kind))]
                /\ UNCHANGED <<forms, outbox, origin>>
           ELSE /\ forms' = [j \in DOMAIN forms |->
                                IF j \in WhereId(forms, r.id)
                                THEN UpdatedRow(forms[j], UpdateColumns, params)
                                ELSE forms[j]]
                /\ origin' = IF r.id \in DOMAIN origin
                             THEN [origin EXCEPT ![r.id].updated = TRUE]
                             ELSE origin
                /\ IF OnlyCallDisposition(r.data) \/ SuppressEmail(merged["disposition"])
                   THEN /\ req' = [req EXCEPT ![p] = Respond([r EXCEPT !.wrote = "ok"], Ok)]
                        /\ UNCHANGED outbox
                   ELSE /\ outbox' = Append(outbox, UpdateMail(merged))
                        /\ req' = [req EXCEPT ![p] =
                                [r EXCEPT !.pc = "mail", !.conn = NoConn, !.wrote = "ok",
                                          !.sends = r.sends + 1, !.mail = "pending"]]
        /\ UNCHANGED <<autoInc, createdAt, started, workload>>

----------------------------------------------------------------------------
(* GET /forms/:id *)

GetForm(p) ==
    \E id \in 1 .. autoInc, c \in Acquirable(conns, Held) :
        /\ CanStart(p)
        /\ req' = [req EXCEPT ![p] =
                [Idle EXCEPT !.kind = "get", !.pc = "select", !.id = id, !.conn = c]]
        /\ conns' = Acquire(conns, c)
        /\ started' = started + 1
        /\ UNCHANGED <<forms, autoInc, createdAt, outbox, origin, workload>>

GetFormDone(p) ==
    LET r == req[p]
        form == RowById(r.id)
    IN  /\ r.kind = "get" /\ r.pc = "select"
        /\ req' = [req EXCEPT ![p] =
                IF form = NoRow THEN Respond(r, NotFound)
                ELSE Respond([r EXCEPT !.body = form, !.src = origin[r.id]], Ok)]
        /\ conns' = Release(conns, r.conn)
        /\ UNCHANGED <<forms, autoInc, createdAt, outbox, started, origin, workload>>

----------------------------------------------------------------------------
(* GET /forms *)

GetForms(p) ==
    \E c \in Acquirable(conns, Held) :
        /\ CanStart(p)
        /\ req' = [req EXCEPT ![p] =
                [Idle EXCEPT !.kind = "list", !.pc = "selectAll", !.conn = c]]
        /\ conns' = Acquire(conns, c)
        /\ started' = started + 1
        /\ UNCHANGED <<forms, autoInc, createdAt, outbox, origin, workload>>

\* listForms resolves with the rows in an order the statement allows.
ListFormsDone(p) ==
    LET r == req[p]
    IN  /\ r.kind = "list" /\ r.pc = "selectAll"
        /\ \E rows \in OrderByCreatedAtDesc(createdAt) :
            req' = [req EXCEPT ![p] = Respond([r EXCEPT !.rows = rows], Ok)]
        /\ conns' = Release(conns, r.conn)
        /\ UNCHANGED <<forms, autoInc, createdAt, outbox, started, origin, workload>>

----------------------------------------------------------------------------
(* GET /webhook, POST /webhook *)

\* processWebhookData: 400 without data, else the stub's INSERT is issued.
Webhook(p) ==
    \E w \in WebhookInputs :
        /\ CanStart(p)
        /\ started' = started + 1
        /\ IF ~w.present
           THEN /\ req' = [req EXCEPT ![p] =
                        Respond([Idle EXCEPT !.kind = "webhook"], BadRequest)]
                /\ UNCHANGED conns
           ELSE \E c \in Acquirable(conns, Held) :
                    /\ req' = [req EXCEPT ![p] =
                            [Idle EXCEPT !.kind = "webhook", !.pc = "winsert",
                                         !.data = w.params, !.conn = c]]
                    /\ conns' = Acquire(conns, c)
        /\ UNCHANGED <<forms, autoInc, createdAt, outbox, origin, workload>>

\* The stub's INSERT settles and SELECT LAST_INSERT_ID() is issued, as a
\* second pool.execute of its own.
WebhookInsertDone(p) ==
    LET r == req[p]
        params == WebhookParams(r.data)
        id == autoInc
        row == InsertedRow(WebhookColumns, params)
        released == ReleaseAfterInsert(conns, r.conn, id)
    IN  /\ r.kind = "webhook" /\ r.pc = "winsert"
        /\ IF Rejected(WebhookColumns, params)
           THEN /\ req' = [req EXCEPT ![p] =
                        Respond([r EXCEPT !.wrote = "failed"], OnStoreError(r.kind))]
                /\ conns' = Release(conns, r.conn)
                /\ UNCHANGED <<forms, autoInc, createdAt, outbox, origin>>
           ELSE /\ forms' = (id :> row) @@ forms
                /\ autoInc' = id + 1
                /\ \E t \in CURRENT_TIMESTAMP(createdAt) :
                    createdAt' = (id :> t) @@ createdAt
                /\ origin' = (id :> [by |-> "webhook", data |-> r.data, updated |-> FALSE]) @@ origin
                /\ outbox' = outbox \o WebhookMails(row)
                /\ \E c \in Acquirable(released, Held - 1) :
                    /\ req' = [req EXCEPT ![p] =
                            [r EXCEPT !.pc = "lastid", !.conn = c, !.wrote = "ok",
                                      !.newId = id]]
                    /\ conns' = Acquire(released, c)
        /\ UNCHANGED <<started, workload>>

\* LAST_INSERT_ID() is answered by the connection that runs it; the handler
\* redirects to /forms?id=<that value>.
WebhookIdDone(p) ==
    LET r == req[p]
    IN  /\ r.kind = "webhook" /\ r.pc = "lastid"
        /\ req' = [req EXCEPT ![p] =
                Respond([r EXCEPT !.location = r.conn], Found)]
        /\ conns' = Release(conns, r.conn)
        /\ UNCHANGED <<forms, autoInc, createdAt, outbox, started, origin, workload>>

----------------------------------------------------------------------------
(* The store fails *)

\* pool.execute rejects (connection or query failure): the statement has no
\* effect, the error reaches the route's catch block.
QueryFails(p) ==
    LET r == req[p]
    IN  /\ r.pc \in QueryPcs
        /\ req' = [req EXCEPT ![p] =
                Respond([r EXCEPT !.wrote = IF r.pc \in WritePcs THEN "failed" ELSE r.wrote,
                                  !.storeError = TRUE],
                        OnStoreError(r.kind))]
        /\ conns' = Release(conns, r.conn)
        /\ UNCHANGED <<forms, autoInc, createdAt, outbox, started, origin, workload>>

----------------------------------------------------------------------------

Next ==
    \E p \in Procs :
        \/ PostForms(p)
        \/ PostInsertDone(p)
        \/ MailSent(p)
        \/ MailFails(p)
        \/ PutForms(p)
        \/ PutLookupDone(p)
        \/ UpdateFetchDone(p)
        \/ UpdateWriteDone(p)
        \/ GetForm(p)
        \/ GetFormDone(p)
        \/ GetForms(p)
        \/ ListFormsDone(p)
        \/ Webhook(p)
        \/ WebhookInsertDone(p)
        \/ WebhookIdDone(p)
        \/ QueryFails(p)

\* Requests of up to MaxInflight clients, over the disposition fields.
Spec == Init /\ [][Next]_vars

\* The call that client p's request awaits returns: the store answers or
\* rejects the statement, the mail transport accepts or rejects the message.
Returns(p) ==
    \/ PostInsertDone(p)
    \/ PutLookupDone(p)
    \/ UpdateFetchDone(p)
    \/ UpdateWriteDone(p)
    \/ GetFormDone(p)
    \/ ListFormsDone(p)
    \/ WebhookInsertDone(p)
    \/ WebhookIdDone(p)
    \/ QueryFails(p)
    \/ MailSent(p)
    \/ MailFails(p)

\* The same requests, where every awaited call returns.
SpecReturns == Init /\ [][Next]_vars /\ \A p \in Procs : WF_vars(Returns(p))

\* One client, over every field of the schema in turn.
SpecFields == InitFields /\ [][Next]_vars

\* Requests of up to MaxInflight clients against a table that holds a record.
SpecStored == InitStored /\ [][Next]_vars

\* Requests of one client, one at a time, against a table that holds a record.
SpecSerial == InitSerial /\ [][Next]_vars

----------------------------------------------------------------------------
(* Properties *)

Finished(r, kind, status) == r.kind = kind /\ r.pc = "done" /\ r.status = status

\* The disposition an update notifies about: the payload's, else the one it
\* read from the store.
MergedDisposition(r) ==
    IF "disposition" \in DOMAIN r.data THEN r.data["disposition"]
    ELSE r.current["disposition"]

\* The Router's "suppressed": the label is a key of the mapping, without an
\* address.
Suppressed(label) ==
    label \in DOMAIN DISPOSITION_TO_EMAIL /\ DISPOSITION_TO_EMAIL[label] = NULL

\* C1: once an update has answered 200, every field of the record holds the
\* payload's value if the payload has that key (the empty string and null
\* included), and otherwise the value stored before the update.
C1_UpdateMerges ==
    \A p \in Procs :
        Finished(req[p], "put", Ok) =>
            \A f \in Fields :
                forms[req[p].id][f] =
                    IF f \in DOMAIN req[p].data THEN req[p].data[f]
                    ELSE req[p].before[f]

\* An update has overwritten a stored value with the empty string.
C1_Witness ==
    \E p \in Procs :
        /\ Finished(req[p], "put", Ok)
        /\ \E f \in DOMAIN req[p].data :
            /\ req[p].data[f] = ""
            /\ req[p].before[f] \notin {"", NULL}
            /\ forms[req[p].id][f] = ""

\* C2: an update of an id that has no record is answered 404 (500 when the
\* lookup itself failed in the store), and no step of it changes the table
\* or reaches the mail transport.
C2_UpdateOfMissingId ==
    /\ [](\A p \in Procs :
            (req[p].kind = "put" /\ req[p].pc = "done" /\ req[p].id \notin DOMAIN forms) =>
                /\ req[p].status = IF req[p].storeError THEN InternalServerError ELSE NotFound
                /\ req[p].sends = 0
                /\ req[p].wrote = "no")
    /\ [][\A p \in Procs :
            (req[p].kind = "put" /\ req[p].id \notin DOMAIN forms /\ req'[p] # req[p]) =>
                (forms' = forms /\ outbox' = outbox)]_vars

\* An update of a missing id was answered 404 while another record is stored.
C2_Witness ==
    \E p \in Procs :
        /\ Finished(req[p], "put", NotFound)
        /\ req[p].id \notin DOMAIN forms
        /\ forms # <<>>

\* C3: a create answered 201, and an update answered 200 whose payload is not
\* call_disposition alone, has invoked the mail transport zero times when its
\* disposition resolves to suppressed and exactly once otherwise.
C3_NotifyOnceUnlessSuppressed ==
    \A p \in Procs :
        /\ Finished(req[p], "post", Created) =>
            req[p].sends = IF Suppressed(Prop(req[p].data, "disposition")) THEN 0 ELSE 1
        /\ (Finished(req[p], "put", Ok) /\ DOMAIN req[p].data # {"call_disposition"}) =>
            req[p].sends = IF Suppressed(MergedDisposition(req[p])) THEN 0 ELSE 1

\* An update that says nothing about the disposition found the stored one
\* suppressed and sent nothing.
C3_Witness ==
    \E p \in Procs :
        /\ Finished(req[p], "put", Ok)
        /\ req[p].data = NoData
        /\ req[p].current["disposition"] = "General Enquiry"
        /\ req[p].sends = 0

\* C4: an update whose payload is call_disposition alone never invokes the
\* mail transport and its UPDATE stores the new value; one that sends
\* call_disposition with another field is notified about like any other.
C4_CallDispositionOnly ==
    /\ [](\A p \in Procs :
            /\ (req[p].kind = "put" /\ DOMAIN req[p].data = {"call_disposition"}) =>
                req[p].sends = 0
            /\ (Finished(req[p], "put", Ok)
                    /\ "call_disposition" \in DOMAIN req[p].data
                    /\ DOMAIN req[p].data # {"call_disposition"}) =>
                req[p].sends = IF Suppressed(MergedDisposition(req[p])) THEN 0 ELSE 1)
    /\ [][\A p \in Procs :
            (/\ req[p].kind = "put" /\ DOMAIN req[p].data = {"call_disposition"}
             /\ req[p].pc = "write" /\ req'[p].wrote = "ok") =>
                forms'[req[p].id]["call_disposition"] = req[p].data["call_disposition"]]_vars

\* A call_disposition-only update of a record routed to a real mailbox was
\* answered 200, stored the value and sent nothing.
C4_Witness ==
    \E p \in Procs :
        /\ Finished(req[p], "put", Ok)
        /\ DOMAIN req[p].data = {"call_disposition"}
        /\ req[p].current["disposition"] = "Renewals"
        /\ req[p].current["call_disposition"] # req[p].data["call_disposition"]
        /\ forms[req[p].id]["call_disposition"] = req[p].data["call_disposition"]
        /\ req[p].sends = 0

\* C5: when sendMail rejects, the step that handles it answers 201 / 200,
\* hands nothing more to the transport and leaves the table as it is; the
\* request ends with exactly one send.
C5_MailFailureIsLocal ==
    /\ [](\A p \in Procs :
            (req[p].pc = "done" /\ req[p].mail = "failed") =>
                /\ req[p].status = IF req[p].kind = "post" THEN Created ELSE Ok
                /\ req[p].sends = 1
                /\ req[p].wrote = "ok")
    /\ [][\A p \in Procs :
            (req[p].pc = "mail" /\ req'[p].mail = "failed") =>
                (forms' = forms /\ outbox' = outbox)]_vars

\* A create whose notification failed was answered 201 and its row is stored.
C5_Witness ==
    \E p \in Procs :
        /\ Finished(req[p], "post", Created)
        /\ req[p].mail = "failed"
        /\ req[p].newId \in DOMAIN forms

\* C6: a create or update whose INSERT / UPDATE failed is answered 500 and
\* has not invoked the mail transport; a request that has invoked it has had
\* its write succeed.
C6_PersistThenNotify ==
    \A p \in Procs :
        req[p].kind \in {"post", "put"} =>
            /\ req[p].wrote = "failed" =>
                (req[p].pc = "done" /\ req[p].status = InternalServerError /\ req[p].sends = 0)
            /\ req[p].sends > 0 => req[p].wrote = "ok"

\* An update whose UPDATE statement failed was answered 500 without a send.
C6_Witness ==
    \E p \in Procs :
        /\ Finished(req[p], "put", InternalServerError)
        /\ req[p].wrote = "failed"
        /\ req[p].sends = 0

\* The addresses the mapping names.
MappedAddresses ==
    {DISPOSITION_TO_EMAIL[label] : label \in DOMAIN DISPOSITION_TO_EMAIL} \ {NULL}

\* C7: every message handed to the mail transport was resolved in one of
\* three ways: a label of the mapping goes to the mapping's address, never
\* 'General Enquiry', and every other label (or none) goes to
\* 'info@shams.ae'; so the recipient is a mapped address or the default.
C7_ThreeOutcomes ==
    \A i \in DOMAIN outbox :
        /\ ~Suppressed(outbox[i].label)
        /\ outbox[i].to =
            IF outbox[i].label \in DOMAIN DISPOSITION_TO_EMAIL
            THEN DISPOSITION_TO_EMAIL[outbox[i].label]
            ELSE "info@shams.ae"
        /\ outbox[i].to \in MappedAddresses \cup {"info@shams.ae"}

\* C8: a webhook intake answered with the redirect has inserted one record
\* and the id in its redirect URL is the id of that record.
C8_RedirectCarriesOwnId ==
    \A p \in Procs :
        Finished(req[p], "webhook", Found) =>
            /\ req[p].newId \in DOMAIN forms
            /\ req[p].location = req[p].newId

\* C9: the mail transport receives a message only in a step of a create
\* (the create's message) or of an update (the update's message), never in
\* a step of a webhook intake.
C9_WebhookNeverNotifies ==
    [][outbox' # outbox =>
        \E p \in Procs :
            /\ req[p].kind \in {"post", "put"}
            /\ req'[p].sends = req[p].sends + 1
            /\ Len(outbox') = Len(outbox) + 1
            /\ outbox'[Len(outbox')].subject =
                IF req[p].kind = "post" THEN CreateSubject ELSE UpdateSubject
            /\ \A q \in Procs : req[q].kind = "webhook" => req'[q] = req[q]]_vars

\* A webhook intake has stored its stub and redirected while the only
\* message sent so far is that of a create.
C9_Witness ==
    \E p \in Procs :
        /\ Finished(req[p], "webhook", Found)
        /\ req[p].newId \in DOMAIN forms
        /\ Len(outbox) = 1
        /\ outbox[1].subject = CreateSubject

\* C10: GET /forms/:id of a record that a create inserted, and no update has
\* written since, returns in every field the create's value for it, and null
\* for a field the create did not send.
C10_CreateThenGet ==
    \A p \in Procs :
        (Finished(req[p], "get", Ok) /\ req[p].src.by = "post" /\ ~req[p].src.updated) =>
            \A f \in Fields :
                req[p].body[f] =
                    IF f \in DOMAIN req[p].src.data THEN req[p].src.data[f] ELSE NULL

\* A record created with an empty string in an optional field was read back
\* with the empty string there and null in a field the create left out.
C10_Witness ==
    \E p \in Procs :
        /\ Finished(req[p], "get", Ok)
        /\ req[p].src.by = "post"
        /\ ~req[p].src.updated
        /\ \E f \in DOMAIN req[p].src.data : req[p].src.data[f] = "" /\ req[p].body[f] = ""
        /\ \E g \in Fields \ DOMAIN req[p].src.data : req[p].body[g] = NULL

----------------------------------------------------------------------------
(* GET /forms: the order of the list *)

\* The step at which listForms resolves for client p.
ListResolves(p) ==
    /\ req[p].kind = "list" /\ req[p].pc = "selectAll"
    /\ req'[p].pc = "done" /\ req'[p].status = Ok

\* Where id stands in the list.
Position(rows, id) == CHOOSE i \in DOMAIN rows : rows[i] = id

\* C11, as stated: a list holds every stored record once, in descending order
\* of creation timestamp, and a record inserted later (it has the larger id)
\* stands before every record inserted earlier, also when both were
\* inserted in the same second.
C11_ListNewestFirst ==
    [][\A p \in Procs :
        ListResolves(p) =>
            LET rows == req'[p].rows
            IN  /\ rows \in Orders(DOMAIN forms)
                /\ \A i, j \in DOMAIN rows :
                        i < j => createdAt[rows[i]] >= createdAt[rows[j]]
                /\ \A a, b \in DOMAIN forms :
                        a < b => Position(rows, b) < Position(rows, a)]_vars

\* What the statement does fix: every stored record once, in descending order
\* of creation timestamp, so a record of a later second stands first.
ListOrderedByTimestamp ==
    [][\A p \in Procs :
        ListResolves(p) =>
            LET rows == req'[p].rows
            IN  /\ rows \in Orders(DOMAIN forms)
                /\ \A a, b \in DOMAIN forms :
                        createdAt[a] < createdAt[b]
                            => Position(rows, b) < Position(rows, a)]_vars

----------------------------------------------------------------------------
(* PUT /forms/:id: updates of one record that overlap *)

\* The step at which the UPDATE of client p's request rewrites the row.
UpdateWrites(p) ==
    /\ req[p].kind = "put" /\ req[p].pc = "write"
    /\ req'[p].wrote = "ok"

\* Client q's update of the same record has written, and the two payloads
\* name different fields.
WroteOtherFields(q, p) ==
    /\ q # p
    /\ req[q].kind = "put" /\ req[q].wrote = "ok"
    /\ req[q].id = req[p].id
    /\ DOMAIN req[q].data # {} /\ DOMAIN req[p].data # {}
    /\ DOMAIN req[q].data \cap DOMAIN req[p].data = {}

\* C12, as stated: the UPDATE of a request leaves every field its caller
\* omitted as it is stored, so the field another update of the same record
\* has written keeps that update's value, however the two overlap.
C12_OmittedFieldsKept ==
    [][\A p \in Procs :
        UpdateWrites(p) =>
            /\ \A f \in Fields \ DOMAIN req[p].data :
                    forms'[req[p].id][f] = forms[req[p].id][f]
            /\ \A q \in Procs :
                    WroteOtherFields(q, p) =>
                        \A g \in DOMAIN req[q].data :
                            forms[req[p].id][g] = req[q].data[g]
                                => forms'[req[p].id][g] = req[q].data[g]]_vars

\* C12, amended: the UPDATE of a request stores, for every field, the value
\* its caller supplied, else the value the request itself fetched before the
\* write.  A field the caller omitted is therefore left as stored when no
\* other update has written it since that fetch, and is put back to the
\* fetched value when one has: of two updates that both fetch before either
\* writes, the one that writes last undoes the other's field.
C12_LastWriterWins ==
    [][\A p \in Procs :
        UpdateWrites(p) =>
            LET r == req[p]
            IN  \A f \in Fields :
                    /\ forms'[r.id][f] =
                            IF f \in DOMAIN r.data THEN r.data[f] ELSE r.current[f]
                    /\ f \notin DOMAIN r.data /\ forms[r.id][f] = r.current[f]
                            => forms'[r.id][f] = forms[r.id][f]]_vars

\* Two updates of record 1 were answered 200, one of disposition alone and
\* one of call_disposition alone, and the record holds the second's value but
\* not the first's.
C12_Witness ==
    \E p, q \in Procs :
        /\ Finished(req[p], "put", Ok) /\ Finished(req[q], "put", Ok)
        /\ req[p].id = 1 /\ req[q].id = 1
        /\ req[p].wrote = "ok" /\ req[q].wrote = "ok"
        /\ DOMAIN req[p].data = {"disposition"}
        /\ DOMAIN req[q].data = {"call_disposition"}
        /\ forms[1]["disposition"] # req[p].data["disposition"]
        /\ forms[1]["call_disposition"] = req[q].data["call_disposition"]

----------------------------------------------------------------------------
(* What no operation changes *)

\* The step at which client p's INSERT stores a row.
Inserts(p) == req[p].pc \in {"insert", "winsert"} /\ req'[p].wrote = "ok"

RecordsKeepIdentityUnderOverlap ==
    [][/\ \A id \in DOMAIN forms :
            /\ id \in DOMAIN forms'
            /\ createdAt'[id] = createdAt[id]
            /\ origin'[id].by = origin[id].by /\ origin'[id].data = origin[id].data
       /\ DOMAIN createdAt' = DOMAIN forms'
       /\ \A p \in Procs :
            /\ Inserts(p) =>
                    /\ req'[p].newId \notin DOMAIN forms
                    /\ DOMAIN forms' = DOMAIN forms \cup {req'[p].newId}
                    /\ \A id \in DOMAIN forms : forms'[id] = forms[id]
            /\ UpdateWrites(p) =>
                    /\ \A id \in DOMAIN forms \ {req[p].id} : forms'[id] = forms[id]
                    /\ req[p].data = NoData => forms'[req[p].id] = req[p].current
                    /\ req[p].data = NoData /\ forms[req[p].id] = req[p].current
                            => forms'[req[p].id] = forms[req[p].id]]_vars

----------------------------------------------------------------------------
(* Every request is answered *)

\* The handler of client p's request awaits a call.
Awaiting(p) == req[p].pc \notin {"idle", "done"}

\* A response has been written for client p's request.
Answered(p) ==
    /\ req[p].pc = "done"
    /\ req[p].status \in {Created, Ok, Found, BadRequest, NotFound, InternalServerError}

\* C14: where every store call and every mail-send call returns, a request
\* that awaits one is eventually answered; a request that has ended has a
\* response, written after its mail-send attempt (if it made one) completed,
\* with status 201 for a create and 200 for an update whether the send
\* succeeded or failed; and an answered request is left as it is until a new
\* request is admitted in its place.
C14_EveryRequestAnswered ==
    /\ \A p \in Procs : Awaiting(p) ~> Answered(p)
    /\ [](\A p \in Procs :
            req[p].pc = "done" =>
                /\ Answered(p)
                /\ req[p].sends > 0 =>
                        /\ req[p].mail \in {"sent", "failed"}
                        /\ req[p].status = IF req[p].kind = "post" THEN Created ELSE Ok)
    /\ [][\A p \in Procs :
            Answered(p) /\ req'[p] # req[p] => started' = started + 1]_vars

\* An update whose send failed and a create whose send succeeded have both
\* been answered.
C14_Witness ==
    \E p, q \in Procs :
        /\ Finished(req[p], "put", Ok) /\ req[p].mail = "failed"
        /\ Finished(req[q], "post", Created) /\ req[q].mail = "sent"

====
